---- MODULE Spec2Model ----
(***************************************************************************)
(* The py2neo console (py2neo/cli/tool.py): the input dispatcher of        *)
(* Py2neoCommandLineTool (runsource, run_command), the command registry,   *)
(* the two invocation modes of use() and the session state the commands    *)
(* act on.                                                                 *)
(*                                                                         *)
(* Text is modelled at the level of lexemes: a string is a sequence whose  *)
(* elements are single characters that matter to the dispatcher (space,    *)
(* newline, the command prefix, the double quote) or whole words.  A       *)
(* token produced by shlex is again a sequence of lexemes.                 *)
(***************************************************************************)
EXTENDS Integers, Sequences, FiniteSets, TLC

VARIABLES pc, args, argi, commands, env, buffer, cycles, reads, last

vars == <<pc, args, argi, commands, env, buffer, cycles, reads, last>>

-----------------------------------------------------------------------------
(* Bounds of the model.                                                    *)

\* dispatch cycles of one run
MaxCycles == 3
\* lines of one multi-line statement held in the console's buffer
MaxBuffer == 2
\* batch arguments after the program name
MaxArgs == 2

-----------------------------------------------------------------------------
(* Lexemes.                                                                *)

SP == " "
NL == "\n"
QUOTE == "\""
Whitespace == {SP, NL}

\* Environment.command_prefix
command_prefix == <<"/">>

\* str.lower() on one lexeme: the words that have upper-case letters
LowerOf ==
    [w \in {"BEGIN", "COMMIT", "ROLLBACK", "CONNECT", "EXIT", "PLAY", "DBMS",
            "PARAMS", "PUSH", "CLEAR", "CONFIG", "HELP", "FOO", "X",
            "Begin", "eXit", "MATCH", "RETURN", "CREATE"} |->
        CASE w = "BEGIN" -> "begin"
          [] w = "COMMIT" -> "commit"
          [] w = "ROLLBACK" -> "rollback"
          [] w = "CONNECT" -> "connect"
          [] w = "EXIT" -> "exit"
          [] w = "PLAY" -> "play"
          [] w = "DBMS" -> "dbms"
          [] w = "PARAMS" -> "params"
          [] w = "PUSH" -> "push"
          [] w = "CLEAR" -> "clear"
          [] w = "CONFIG" -> "config"
          [] w = "HELP" -> "help"
          [] w = "FOO" -> "foo"
          [] w = "X" -> "x"
          [] w = "Begin" -> "begin"
          [] w = "eXit" -> "exit"
          [] w = "MATCH" -> "match"
          [] w = "RETURN" -> "return"
          [] w = "CREATE" -> "create"]

LowerLexeme(w) == IF w \in DOMAIN LowerOf THEN LowerOf[w] ELSE w

\* a faulty variant of Lower: the token is compared as typed
LowerIdentity(s) == s

\* str.lower()
Lower(s) == [i \in 1..Len(s) |-> LowerLexeme(s[i])]

\* tokens[0] = tokens[0].lower()
LowerFirst(tokens) == [tokens EXCEPT ![1] = Lower(tokens[1])]

\* a faulty variant of StartsWith: the prefix is looked for anywhere in the text
StartsWithAnywhere(s, p) ==
    \E i \in 1..(Len(s) - Len(p) + 1) : SubSeq(s, i, i + Len(p) - 1) = p

\* str.startswith
StartsWith(s, p) == Len(s) >= Len(p) /\ SubSeq(s, 1, Len(p)) = p

\* source[len(command_prefix):]
DropPrefix(s, p) == SubSeq(s, Len(p) + 1, Len(s))

\* a faulty variant of lstrip: nothing is stripped
lstripNothing(s) == s

RECURSIVE lstrip(_)
\* str.lstrip(): leading whitespace (spaces and newlines) removed
lstrip(s) ==
    IF s # <<>> /\ Head(s) \in Whitespace THEN lstrip(Tail(s)) ELSE s

\* a faulty variant of Join: only the line just read is handed on
JoinLastOnly(lines) == IF lines = <<>> THEN <<>> ELSE lines[Len(lines)]

RECURSIVE Join(_)
\* "\n".join(buffer)
Join(lines) ==
    IF lines = <<>> THEN <<>>
    ELSE IF Len(lines) = 1 THEN lines[1]
    ELSE lines[1] \o <<NL>> \o Join(Tail(lines))

RECURSIVE ShlexScan(_, _, _, _, _)
\* shlex.split: whitespace separates tokens, a double quote opens a stretch
\* that belongs to the current token up to the closing quote, and input that
\* ends inside a quote raises ValueError ("No closing quotation")
ShlexScan(s, cur, inToken, inQuote, acc) ==
    IF s = <<>>
    THEN IF inQuote THEN [ok |-> FALSE, tokens |-> <<>>]
         ELSE [ok |-> TRUE, tokens |-> IF inToken THEN Append(acc, cur) ELSE acc]
    ELSE LET c == Head(s)
             r == Tail(s)
         IN  IF inQuote
             THEN IF c = QUOTE THEN ShlexScan(r, cur, TRUE, FALSE, acc)
                  ELSE ShlexScan(r, Append(cur, c), TRUE, TRUE, acc)
             ELSE IF c = QUOTE THEN ShlexScan(r, cur, TRUE, TRUE, acc)
             ELSE IF c \in Whitespace
                  THEN ShlexScan(r, <<>>, FALSE, FALSE,
                                 IF inToken THEN Append(acc, cur) ELSE acc)
             ELSE ShlexScan(r, Append(cur, c), TRUE, FALSE, acc)

shlex_split(s) == ShlexScan(s, <<>>, FALSE, FALSE, <<>>)

\* py2neo.cypher.lang.starts_like_cypher: the text opens with a query keyword
CypherKeywords == {"match", "return", "create"}

starts_like_cypher(s) == s # <<>> /\ LowerLexeme(s[1]) \in CypherKeywords

-----------------------------------------------------------------------------
(* The command registry.                                                   *)

Pat1(a) == << <<a>> >>
Pat2(a, b) == << <<a>>, <<b>> >>
Pat4(a, b, c, d) == << <<a>>, <<b>>, <<c>>, <<d>> >>

Entry(p, c) == [pattern |-> p, class |-> c]

\* a faulty variant of StaticCommands: commit is registered with the begin command
StaticCommandsCommitBegins == <<
    Entry(Pat1("begin"), "BeginTransactionCommand"),
    Entry(Pat1("commit"), "BeginTransactionCommand"),
    Entry(Pat1("rollback"), "RollbackTransactionCommand"),
    Entry(Pat1("connect"), "ListConnectionsCommand"),
    Entry(Pat2("connect", "<uri>"), "ConnectCommand"),
    Entry(Pat4("connect", "<uri>", "<user>", "<password>"), "ConnectCommand"),
    Entry(Pat1("exit"), "ExitCommand"),
    Entry(Pat1("play"), "PlayCypherCommand"),
    Entry(Pat1("dbms"), "PrintDBMSDetailsCommand"),
    Entry(Pat1("params"), "ListParameterSetsCommand"),
    Entry(Pat1("push"), "AppendParameterSetCommand"),
    Entry(Pat1("clear"), "ClearParameterSetsCommand"),
    Entry(Pat1("config"), "PrintConfigCommand"),
    Entry(Pat2("config", "<search_term>"), "PrintConfigCommand") >>

\* the class attribute Py2neoCommandLineTool.commands, in source order
StaticCommands == <<
    Entry(Pat1("begin"), "BeginTransactionCommand"),
    Entry(Pat1("commit"), "CommitTransactionCommand"),
    Entry(Pat1("rollback"), "RollbackTransactionCommand"),
    Entry(Pat1("connect"), "ListConnectionsCommand"),
    Entry(Pat2("connect", "<uri>"), "ConnectCommand"),
    Entry(Pat4("connect", "<uri>", "<user>", "<password>"), "ConnectCommand"),
    Entry(Pat1("exit"), "ExitCommand"),
    Entry(Pat1("play"), "PlayCypherCommand"),
    Entry(Pat1("dbms"), "PrintDBMSDetailsCommand"),
    Entry(Pat1("params"), "ListParameterSetsCommand"),
    Entry(Pat1("push"), "AppendParameterSetCommand"),
    Entry(Pat1("clear"), "ClearParameterSetsCommand"),
    Entry(Pat1("config"), "PrintConfigCommand"),
    Entry(Pat2("config", "<search_term>"), "PrintConfigCommand") >>

\* a faulty variant of SetItem: the registry is a list of pairs and every
\* assignment adds a pair
SetItemAppends(registry, p, c) == Append(registry, Entry(p, c))

\* commands[key] = value on the registry: an existing key keeps its place
SetItem(registry, p, c) ==
    IF \E i \in DOMAIN registry : registry[i].pattern = p
    THEN [i \in DOMAIN registry |->
            IF registry[i].pattern = p THEN Entry(p, c) ELSE registry[i]]
    ELSE Append(registry, Entry(p, c))

\* __init__: the two help patterns are added to the registry
RegisterHelp(registry) ==
    SetItem(SetItem(registry, Pat1("help"), "HelpCommand"),
            Pat2("help", "<topic>"), "HelpCommand")

\* a faulty variant of Matches: the token count is not compared
MatchesFirstTokenOnly(tokens, pattern) == tokens[1] = pattern[1]

\* run_command: tokens[0] == slash_string and len(tokens) == len(pattern)
Matches(tokens, pattern) ==
    tokens[1] = pattern[1] /\ Len(tokens) = Len(pattern)

\* run_command: the scan of the registry; 0 when the loop ends without a match
FirstMatch(tokens, registry) ==
    LET hits == {i \in DOMAIN registry : Matches(tokens, registry[i].pattern)}
    IN  IF hits = {} THEN 0
        ELSE CHOOSE i \in hits : \A j \in hits : i <= j

-----------------------------------------------------------------------------
(* The output sink: what one dispatch cycle wrote, in order.               *)

Write(text) == [chan |-> "out", text |-> text]
WriteError(text) == [chan |-> "error", text |-> text]
\* console.write() without text: a blank line
BlankLine == Write(<<>>)

-----------------------------------------------------------------------------
(* The Environment and the command variants.                               *)

NoConnection == <<>>
NoTransaction == 0

\* NEO4J_URI
NEO4J_URI == <<"localhost">>

\* Environment after construction
NewEnvironment ==
    [connection |-> NoConnection, transaction |-> NoTransaction, params |-> <<>>]

\* Environment.has_transaction
has_transaction(e) == e.transaction # NoTransaction

\* the result of executing one command: the environment, the output and
\* whether the command ended the process
Effect(e, out, exits) == [env |-> e, out |-> out, exits |-> exits]

\* a faulty variant of connect: a failed attempt leaves the environment
\* without a connection
connectDropsOnFailure(e, uri, available) ==
    IF available
    THEN Effect([e EXCEPT !.connection = uri], <<>>, FALSE)
    ELSE Effect([e EXCEPT !.connection = NoConnection],
                <<WriteError(<<"service unavailable">>)>>, FALSE)

\* Environment.connect under the connect command: the new connection replaces
\* the one held; when the service is unavailable the failure is reported and
\* the environment stays as it was
connect(e, uri, available) ==
    IF available
    THEN Effect([e EXCEPT !.connection = uri], <<>>, FALSE)
    ELSE Effect(e, <<WriteError(<<"service unavailable">>)>>, FALSE)

\* Command.execute of each variant; handle is the transaction a begin opens,
\* available is the driver's answer to a connection attempt
Execute(class, cargs, e, handle, available, registry) ==
    CASE class = "BeginTransactionCommand" ->
            IF has_transaction(e)
            THEN Effect(e, <<WriteError(<<"already in transaction">>)>>, FALSE)
            ELSE Effect([e EXCEPT !.transaction = handle], <<>>, FALSE)
      [] class \in {"CommitTransactionCommand", "RollbackTransactionCommand"} ->
            IF has_transaction(e)
            THEN Effect([e EXCEPT !.transaction = NoTransaction], <<>>, FALSE)
            ELSE Effect(e, <<WriteError(<<"no active transaction">>)>>, FALSE)
      [] class = "ListConnectionsCommand" ->
            Effect(e, <<Write(<<"connection">> \o e.connection)>>, FALSE)
      [] class = "ConnectCommand" -> connect(e, cargs[1], available)
      [] class = "ExitCommand" -> Effect(e, <<>>, TRUE)
      [] class = "PlayCypherCommand" ->
            Effect(e, <<WriteError(<<"file not found">>)>>, FALSE)
      [] class = "PrintDBMSDetailsCommand" ->
            Effect(e, <<Write(<<"dbms">> \o e.connection)>>, FALSE)
      [] class = "ListParameterSetsCommand" ->
            Effect(e, <<Write(<<"params">>)>>, FALSE)
      [] class = "AppendParameterSetCommand" ->
            Effect(e, <<WriteError(<<"malformed JSON">>)>>, FALSE)
      [] class = "ClearParameterSetsCommand" ->
            Effect([e EXCEPT !.params = <<>>], <<>>, FALSE)
      [] class = "PrintConfigCommand" ->
            Effect(e, <<Write(<<"config">> \o cargs)>>, FALSE)
      [] class = "HelpCommand" ->
            Effect(e, <<Write(<<"usage overview">>), BlankLine,
                        Write(<<"Report bugs to">>)>>, FALSE)

-----------------------------------------------------------------------------
(* The driver's answers to a statement.                                    *)

UnexpectedEnd == <<"Unexpected", "end", "of", "input">>
CannotConclude == <<"Query", "cannot", "conclude", "with">>

\* messages a CypherSyntaxError can carry
SyntaxMessages ==
    { UnexpectedEnd \o <<":", "expected", "whitespace">>,
      CannotConclude \o <<"MATCH">>,
      <<"Invalid", "input">>,
      <<"Error:">> \o UnexpectedEnd }

Responses ==
    {[kind |-> "ok", message |-> <<>>]}
        \cup {[kind |-> "syntax", message |-> m] : m \in SyntaxMessages}

\* a faulty variant of IsIncomplete: only the first phrasing is recognised
IsIncompleteFirstPhraseOnly(message) == StartsWith(message, UnexpectedEnd)

\* a faulty variant of IsIncomplete: the phrasing is searched anywhere in the message
IsIncompleteAnywhere(message) ==
    \E i \in 1..Len(message) :
        \/ StartsWith(SubSeq(message, i, Len(message)), UnexpectedEnd)
        \/ StartsWith(SubSeq(message, i, Len(message)), CannotConclude)

\* runsource: message.startswith("Unexpected end of input") or
\* message.startswith("Query cannot conclude with")
IsIncomplete(message) ==
    StartsWith(message, UnexpectedEnd) \/ StartsWith(message, CannotConclude)

-----------------------------------------------------------------------------
(* The dispatcher.                                                         *)

\* what one call of run_command or runsource did
Outcome(path, tokens, ran, executed, answer, more, end, error, out, e) ==
    [path |-> path, tokens |-> tokens, ran |-> ran, executed |-> executed,
     answer |-> answer, more |-> more, end |-> end, error |-> error,
     out |-> out, separators |-> 0, env |-> e]

NoAnswer == [kind |-> "none", message |-> <<>>]

\* run_command
run_command(source, e, handle, available, registry) ==
    LET split == shlex_split(source)
    IN  IF ~split.ok
        THEN Outcome("command", <<>>, <<>>, <<>>, NoAnswer, 0, "raised",
                     "ValueError", <<>>, e)
        ELSE IF split.tokens = <<>>
        THEN Outcome("command", <<>>, <<>>, <<>>, NoAnswer, 0, "raised",
                     "IndexError", <<>>, e)
        ELSE LET tokens == LowerFirst(split.tokens)
                 i == FirstMatch(tokens, registry)
             IN  IF i = 0
                 THEN Outcome("command", tokens, <<>>, <<>>, NoAnswer, 0,
                              "returned", "none",
                              <<WriteError(<<"Syntax Error: Invalid slash command">>
                                           \o tokens[1])>>, e)
                 ELSE LET class == registry[i].class
                          eff == Execute(class, Tail(tokens), e, handle,
                                         available, registry)
                      IN  Outcome("command", tokens,
                                  <<[class |-> class, args |-> Tail(tokens)]>>,
                                  <<>>, NoAnswer, 0,
                                  IF eff.exits THEN "exit" ELSE "returned",
                                  "none", eff.out, eff.env)

\* RunCypherCommand(self.env, source).execute() and the except clause around it
RunCypher(source, e, answer) ==
    IF answer.kind = "ok"
    THEN Outcome("query", <<>>, <<>>, <<source>>, answer, 0, "returned", "none",
                 <<Write(<<"rows">>)>>, e)
    ELSE IF IsIncomplete(answer.message)
    THEN Outcome("query", <<>>, <<>>, <<>>, answer, 1, "returned", "none", <<>>, e)
    ELSE Outcome("query", <<>>, <<>>, <<>>, answer, 0, "returned", "none",
                 <<WriteError(<<"Syntax Error:">> \o answer.message)>>, e)

\* a faulty variant of Classify: the text is not tested for looking like a
\* query before it is executed as one
ClassifyWithoutQueryTest(text, e, answer, handle, available, registry) ==
    LET source == lstrip(text)
    IN  IF source = <<>>
        THEN Outcome("empty", <<>>, <<>>, <<>>, NoAnswer, 0, "returned", "none",
                     <<>>, e)
        ELSE IF StartsWith(source, command_prefix)
        THEN run_command(DropPrefix(source, command_prefix), e, handle,
                         available, registry)
        ELSE RunCypher(source, e, answer)

\* runsource, up to the separator
Classify(text, e, answer, handle, available, registry) ==
    LET source == lstrip(text)
    IN  IF source = <<>>
        THEN Outcome("empty", <<>>, <<>>, <<>>, NoAnswer, 0, "returned", "none",
                     <<>>, e)
        ELSE IF StartsWith(source, command_prefix)
        THEN run_command(DropPrefix(source, command_prefix), e, handle,
                         available, registry)
        ELSE IF starts_like_cypher(source)
        THEN RunCypher(source, e, answer)
        ELSE Outcome("invalid", <<>>, <<>>, <<>>, NoAnswer, 0, "returned", "none",
                     <<WriteError(<<"Syntax Error: Invalid input">>)>>, e)

\* runsource: if not more: self.console.write(); return more
runsource(text, e, answer, handle, available, registry) ==
    LET r == Classify(text, e, answer, handle, available, registry)
    IN  IF r.end = "returned" /\ r.more = 0
        THEN [r EXCEPT !.out = Append(r.out, BlankLine), !.separators = 1]
        ELSE r

-----------------------------------------------------------------------------
(* Input.                                                                  *)

\* the literal invocation of a registry pattern: the first token as typed,
\* then one argument per placeholder
Invocation(first, pattern) ==
    command_prefix \o <<first>>
        \o (IF Len(pattern) >= 2 THEN <<SP, "x">> ELSE <<>>)
        \o (IF Len(pattern) >= 3 THEN <<SP, "y">> ELSE <<>>)
        \o (IF Len(pattern) >= 4 THEN <<SP, "z">> ELSE <<>>)

\* the ways of typing a lower-case word
Spellings(word) == {word} \cup {w \in DOMAIN LowerOf : LowerOf[w] = word}

RegistryPatterns == {e.pattern : e \in
    {RegisterHelp(StaticCommands)[i] : i \in DOMAIN RegisterHelp(StaticCommands)}}

\* every pattern as registered, and some of them typed in capitals
InvocationLines ==
    {Invocation(p[1][1], p) : p \in RegistryPatterns}
        \cup UNION {{Invocation(w, p) :
                        p \in {q \in RegistryPatterns : q[1] = <<LowerOf[w]>>}} :
                    w \in {"BEGIN", "CONNECT", "HELP"}}

BlankLines == {<<>>, <<SP>>}

QueryLines == {<<"MATCH", SP, "(n)">>, <<SP, "return", SP, "n">>}

OtherLines ==
    { <<"/", "foo">>,
      <<"/", "begin", SP, "x">>,
      <<"/", "connect", SP, "x", SP, "y">>,
      <<"/", "connect", SP, QUOTE, "X", SP, "y", QUOTE>>,
      <<SP, "/", "eXit">>,
      <<"/">>,
      <<"/", "begin", SP, QUOTE, "x">>,
      <<"foo">> }

\* /push {"a": 1}, /push {"a": 2} and /push {bad json, as typed
PushOne == <<"/", "push", SP, "{", QUOTE, "a", QUOTE, ":", SP, "1}">>
PushTwo == <<"/", "push", SP, "{", QUOTE, "a", QUOTE, ":", SP, "2}">>
PushBad == <<"/", "push", SP, "{bad", SP, "json">>

PushLines == {PushOne, PushTwo, PushBad}

\* the lines a user types
Lines ==
    BlankLines \cup InvocationLines \cup QueryLines \cup OtherLines \cup PushLines

\* the lines given as batch arguments
ArgLines ==
    { <<>>, <<"/", "begin">>, <<"/", "EXIT">>, <<"/", "foo">>, <<"/">>,
      <<"/", "begin", SP, QUOTE, "x">>, <<"MATCH", SP, "(n)">>, <<"foo">> }

ProgramName == <<"py2neo">>

RECURSIVE SeqsUpTo(_, _)
SeqsUpTo(S, n) ==
    IF n = 0 THEN {<<>>}
    ELSE LET shorter == SeqsUpTo(S, n - 1)
         IN  shorter \cup {Append(t, x) : t \in shorter, x \in S}

\* the argument tuples the tool is constructed with
ArgTuples == {<<>>} \cup {<<ProgramName>> \o t : t \in SeqsUpTo(ArgLines, MaxArgs)}

-----------------------------------------------------------------------------
(* The console.                                                            *)

\* a faulty variant of prompt: the continuation prompt has a colour of its own
promptThirdColour(e, held) ==
    [colour |-> IF held # <<>> THEN 33
                ELSE IF has_transaction(e) THEN 31 ELSE 32,
     marker |-> IF held # <<>> THEN "..." ELSE ">>>",
     bold |-> held = <<>>]

\* prompt: the colour follows the transaction, the marker follows the buffer
prompt(e, held) ==
    [colour |-> IF has_transaction(e) THEN 31 ELSE 32,
     marker |-> IF held # <<>> THEN "..." ELSE ">>>",
     bold |-> held = <<>>]

\* batch mode reads no line and shows no prompt
NoPrompt == [colour |-> 0, marker |-> "", bold |-> FALSE]

\* __init__: interactive=(len(self.args) == 1)
Interactive(a) == Len(a) = 1

\* use: exit(1) on ServiceUnavailable; an uncaught exception ends the
\* interpreter with status 1; a return from main ends it with status 0
exit_status(p) ==
    CASE p = "fatal" -> 1
      [] p = "crashed" -> 1
      [] OTHER -> 0

\* the answers of the collaborators that a cycle on this text can consume:
\* the driver's answer to a statement when the text takes the query path, and
\* its answer to a connection attempt when the text runs a connect command
Answers(text, registry) ==
    LET probe == Classify(text, NewEnvironment, [kind |-> "ok", message |-> <<>>],
                          1, TRUE, registry)
    IN  [answer : IF probe.path = "query" THEN Responses ELSE {NoAnswer},
         available : IF /\ probe.ran # <<>>
                        /\ probe.ran[1].class = "ConnectCommand"
                     THEN BOOLEAN ELSE {TRUE}]

\* the record of the last dispatch cycle: how it was fed and what it did
Cycle(mode, line, text, before, held, r) ==
    [mode |-> mode, line |-> line, text |-> text, envBefore |-> before,
     bufferBefore |-> held, path |-> r.path, tokens |-> r.tokens, ran |-> r.ran,
     executed |-> r.executed, answer |-> r.answer, more |-> r.more,
     end |-> r.end, error |-> r.error, out |-> r.out,
     separators |-> r.separators,
     prompt |-> IF mode = "interactive" THEN prompt(before, held) ELSE NoPrompt]

NoCycle ==
    [mode |-> "none", line |-> <<>>, text |-> <<>>, envBefore |-> NewEnvironment,
     bufferBefore |-> <<>>, path |-> "none", tokens |-> <<>>, ran |-> <<>>,
     executed |-> <<>>, answer |-> NoAnswer, more |-> 0, end |-> "none",
     error |-> "none", out |-> <<>>, separators |-> 0, prompt |-> NoPrompt]

\* where control goes after a dispatch cycle
After(r, next) ==
    CASE r.end = "raised" -> "crashed"
      [] r.end = "exit" -> "exited"
      [] OTHER -> next

Init ==
    /\ pc = "constructed"
    /\ args \in ArgTuples
    /\ argi = 2
    /\ commands = RegisterHelp(StaticCommands)
    /\ env = NewEnvironment
    /\ buffer = <<>>
    /\ cycles = 0
    /\ reads = 0
    /\ last = NoCycle

\* __init__ on a second instance: the help patterns are assigned again in the
\* registry, which is an attribute of the class
ConstructAgain ==
    /\ pc = "constructed"
    /\ commands' = RegisterHelp(commands)
    /\ pc' = "reconstructed"
    /\ UNCHANGED <<args, argi, env, buffer, cycles, reads, last>>

\* use: the startup connection succeeds
UseConnected ==
    /\ pc \in {"constructed", "reconstructed"}
    /\ env' = [env EXCEPT !.connection = NEO4J_URI]
    /\ pc' = IF Interactive(args) THEN "read" ELSE "batch"
    /\ UNCHANGED <<args, argi, commands, buffer, cycles, reads, last>>

\* a faulty variant of UseUnavailable: the exception is swallowed and the tool
\* goes on without a connection
UseUnavailableSwallowed ==
    /\ pc \in {"constructed", "reconstructed"}
    /\ pc' = IF Interactive(args) THEN "read" ELSE "batch"
    /\ UNCHANGED <<args, argi, commands, env, buffer, cycles, reads, last>>

\* use: ServiceUnavailable at startup, exit(1)
UseUnavailable ==
    /\ pc \in {"constructed", "reconstructed"}
    /\ pc' = "fatal"
    /\ UNCHANGED <<args, argi, commands, env, buffer, cycles, reads, last>>

\* InteractiveConsole.interact and push: one line is read, appended to the
\* buffer, the joined buffer goes to runsource, and the buffer is reset unless
\* runsource asks for more
ReadLine ==
    /\ pc = "read"
    /\ reads < MaxCycles
    /\ Len(buffer) < MaxBuffer
    /\ \E line \in Lines :
        \E a \in Answers(Join(Append(buffer, line)), commands) :
        LET held == Append(buffer, line)
            text == Join(held)
        IN  \E r \in {runsource(text, env, a.answer, cycles + 1, a.available,
                                 commands)} :
            /\ last' = Cycle("interactive", line, text, env, buffer, r)
            /\ env' = r.env
            /\ buffer' = IF r.end = "returned" /\ r.more = 0 THEN <<>> ELSE held
            /\ pc' = After(r, "read")
    /\ cycles' = cycles + 1
    /\ reads' = reads + 1
    /\ UNCHANGED <<args, argi, commands>>

\* InteractiveConsole.interact: end of input at the prompt ends the loop
EndOfInput ==
    /\ pc = "read"
    /\ pc' = "done"
    /\ reads' = reads + 1
    /\ UNCHANGED <<args, argi, commands, env, buffer, cycles, last>>

\* a faulty variant of BatchArg: the arguments go through the buffer as typed
\* lines do
BatchArgPushes ==
    /\ pc = "batch"
    /\ argi <= Len(args)
    /\ \E a \in Answers(Join(Append(buffer, args[argi])), commands) :
        LET held == Append(buffer, args[argi])
            text == Join(held)
        IN  \E r \in {runsource(text, env, a.answer, cycles + 1, a.available,
                                 commands)} :
            /\ last' = Cycle("batch", args[argi], text, env, buffer, r)
            /\ env' = r.env
            /\ buffer' = IF r.end = "returned" /\ r.more = 0 THEN <<>> ELSE held
            /\ pc' = After(r, "batch")
    /\ argi' = argi + 1
    /\ cycles' = cycles + 1
    /\ UNCHANGED <<args, commands, reads>>

\* use: for arg in self.args[1:]: self.runsource(arg)
BatchArg ==
    /\ pc = "batch"
    /\ argi <= Len(args)
    /\ \E a \in Answers(args[argi], commands) :
        \E r \in {runsource(args[argi], env, a.answer, cycles + 1, a.available,
                             commands)} :
            /\ last' = Cycle("batch", args[argi], args[argi], env, buffer, r)
            /\ env' = r.env
            /\ pc' = After(r, "batch")
    /\ argi' = argi + 1
    /\ cycles' = cycles + 1
    /\ UNCHANGED <<args, commands, buffer, reads>>

\* use: the arguments are exhausted
BatchEnd ==
    /\ pc = "batch"
    /\ argi > Len(args)
    /\ pc' = "done"
    /\ UNCHANGED <<args, argi, commands, env, buffer, cycles, reads, last>>

Next ==
    \/ ConstructAgain
    \/ UseConnected
    \/ UseUnavailable
    \/ ReadLine
    \/ EndOfInput
    \/ BatchArg
    \/ BatchEnd

Spec == Init /\ [][Next]_vars

TypeOK ==
    /\ pc \in {"constructed", "reconstructed", "fatal", "read", "batch", "done", "exited", "crashed"}
    /\ args \in ArgTuples
    /\ cycles \in 0..MaxCycles
    /\ reads \in 0..(MaxCycles + 1)
    /\ Len(buffer) <= MaxBuffer
    /\ last.more \in {0, 1}

-----------------------------------------------------------------------------
(* Vocabulary of the properties.                                           *)

\* the message opens with one of the two phrasings of an unfinished statement
RecognisedPhrasing(message) ==
    \E phrase \in {UnexpectedEnd, CannotConclude} :
        /\ Len(message) >= Len(phrase)
        /\ \A i \in 1..Len(phrase) : message[i] = phrase[i]

\* the positions of the error messages in an output
ErrorsIn(out) == {i \in DOMAIN out : out[i].chan = "error"}

\* the text consists of whitespace only
AllWhitespace(s) == \A i \in DOMAIN s : s[i] \in Whitespace

\* statement is full without its leading whitespace
StrippedOf(full, statement) ==
    \E k \in 0..Len(full) :
        /\ \A i \in 1..k : full[i] \in Whitespace
        /\ statement = SubSeq(full, k + 1, Len(full))
        /\ statement # <<>> => statement[1] \notin Whitespace

\* the last cycle took the query path and the driver reported a syntax error
SyntaxFailure == last.path = "query" /\ last.answer.kind = "syntax"

\* the registry entries whose pattern has the shape of the tokens
ShapeMatches(tokens) ==
    {i \in DOMAIN commands :
        /\ commands[i].pattern[1] = tokens[1]
        /\ Len(commands[i].pattern) = Len(tokens)}

\* the arguments of the literal invocation of a pattern
InvocationArgs(pattern) ==
    SubSeq(<< <<"x">>, <<"y">>, <<"z">> >>, 1, Len(pattern) - 1)

-----------------------------------------------------------------------------
(* Multi-line statements.                                                  *)

\* C1: in interactive mode, a query line fed with an empty buffer whose
\* execution fails with one of the two recognised phrasings leaves the line in
\* the buffer, runs nothing and asks for more; a following line whose joined
\* statement the driver accepts runs that joined statement once and no other,
\* empties the buffer and asks for no more.
C1_TruncatedThenCompleted ==
    last.mode = "interactive" =>
        /\ (/\ last.bufferBefore = <<>>
            /\ SyntaxFailure
            /\ RecognisedPhrasing(last.answer.message))
           => /\ buffer = <<last.line>>
              /\ last.more = 1
              /\ last.executed = <<>>
              /\ pc \in {"read", "done"}
              /\ prompt(env, buffer).marker = "..."
        /\ (/\ last.bufferBefore # <<>>
            /\ last.path = "query"
            /\ last.answer.kind = "ok")
           => /\ Len(last.executed) = 1
              /\ StrippedOf(Join(Append(last.bufferBefore, last.line)),
                            last.executed[1])
              /\ buffer = <<>>
              /\ last.more = 0
              /\ pc \in {"read", "done"}
              /\ prompt(env, buffer).marker = ">>>"

\* a two-line statement was completed and run
C1_Witness ==
    /\ last.mode = "interactive"
    /\ last.bufferBefore = << <<"MATCH", SP, "(n)">> >>
    /\ last.line = <<SP, "return", SP, "n">>
    /\ last.executed = << <<"MATCH", SP, "(n)", NL, SP, "return", SP, "n">> >>
    /\ buffer = <<>>

-----------------------------------------------------------------------------
(* Slash commands.                                                         *)

\* C3: a slash-command line whose tokens match no registry pattern in first
\* token and count writes the invalid slash command error naming the first
\* token, runs no command and leaves the Environment as it was.
C3_NoMatchIsInvalidSlashCommand ==
    (/\ last.path = "command"
     /\ last.tokens # <<>>
     /\ ShapeMatches(last.tokens) = {})
    => /\ last.out = <<WriteError(<<"Syntax Error: Invalid slash command">>
                                  \o last.tokens[1]),
                       BlankLine>>
       /\ last.ran = <<>>
       /\ env = last.envBefore
       /\ last.end = "returned"

\* begin was given an argument: a registered token with the wrong count
C3_Witness ==
    /\ last.path = "command"
    /\ last.tokens = << <<"begin">>, <<"x">> >>
    /\ last.ran = <<>>
    /\ ErrorsIn(last.out) # {}

\* C4: for every registry pattern and every way of typing its first token, the
\* literal invocation tokenizes to tokens that match that pattern and no other
\* (stated of the registry as constructed), and a cycle fed with it alone
\* constructs and executes once the command the registry maps the pattern to,
\* with the tokens after the first as arguments.
C4_LiteralInvocationRunsItsCommand ==
    \A i \in DOMAIN commands :
        \A w \in Spellings(commands[i].pattern[1][1]) :
            LET pattern == commands[i].pattern
                line == Invocation(w, pattern)
                split == shlex_split(DropPrefix(lstrip(line), command_prefix))
            IN  /\ pc = "constructed"
                    => /\ split.ok
                       /\ split.tokens # <<>>
                       /\ {j \in DOMAIN commands :
                            Matches(LowerFirst(split.tokens),
                                    commands[j].pattern)} = {i}
                /\ (/\ last.mode # "none"
                    /\ last.bufferBefore = <<>>
                    /\ last.line = line)
                   => last.ran = <<[class |-> commands[i].class,
                                    args |-> InvocationArgs(pattern)]>>

\* connect typed in capitals with its three arguments ran the connect command
C4_Witness ==
    /\ last.line = <<"/", "CONNECT", SP, "x", SP, "y", SP, "z">>
    /\ last.ran = <<[class |-> "ConnectCommand",
                     args |-> << <<"x">>, <<"y">>, <<"z">> >>]>>

-----------------------------------------------------------------------------
(* Transactions.                                                           *)

\* the last cycle was fed this command word alone, as a slash command
Typed(word) == last.path = "command" /\ last.tokens = << <<word>> >>

\* C5: begin while a transaction is active reports "already in transaction"
\* and leaves the active transaction as it was; commit or rollback while none
\* is active reports "no active transaction" and changes nothing; begin with
\* none active opens one, and commit or rollback of an active transaction
\* leaves has_transaction() false and the prompt in the no-transaction colour.
C5_TransactionCommands ==
    /\ (Typed("begin") /\ has_transaction(last.envBefore))
        => /\ WriteError(<<"already in transaction">>) = last.out[1]
           /\ env = last.envBefore
    /\ ((Typed("commit") \/ Typed("rollback")) /\ ~has_transaction(last.envBefore))
        => /\ WriteError(<<"no active transaction">>) = last.out[1]
           /\ env = last.envBefore
    /\ (Typed("begin") /\ ~has_transaction(last.envBefore))
        => /\ has_transaction(env)
           /\ ErrorsIn(last.out) = {}
           /\ prompt(env, buffer).colour = 31
    /\ ((Typed("commit") \/ Typed("rollback")) /\ has_transaction(last.envBefore))
        => /\ ~has_transaction(env)
           /\ ErrorsIn(last.out) = {}
           /\ prompt(env, buffer).colour = 32

\* a transaction was begun and then committed
C5_Witness ==
    /\ Typed("commit")
    /\ has_transaction(last.envBefore)
    /\ ~has_transaction(env)
    /\ cycles >= 2

-----------------------------------------------------------------------------
(* Commands while a statement is accumulating.                             *)

\* C6: in both dispatcher states, a line that starts with the command prefix
\* after its leading whitespace is dispatched as a slash command and leaves
\* the buffer as it was; the exit command ends the loop also while a
\* multi-line statement is accumulating.
C6_PrefixLineIsAlwaysACommand ==
    (/\ last.mode = "interactive"
     /\ ~AllWhitespace(last.line)
     /\ \E k \in DOMAIN last.line :
            /\ \A i \in 1..(k - 1) : last.line[i] \in Whitespace
            /\ SubSeq(last.line, k, k + Len(command_prefix) - 1) = command_prefix)
    => /\ last.path = "command"
       /\ last.line = <<"/", "exit">> => pc = "exited"

-----------------------------------------------------------------------------
(* Errors.                                                                 *)

\* C7: no input line ends the interactive loop except the exit command: after
\* every cycle the console reads again, and a slash command that is bare or
\* has an unclosed quote is reported as one message on the error channel.
C7_NoErrorEndsTheLoop ==
    (last.mode = "interactive" /\ last.end # "exit")
    => /\ pc \in {"read", "done"}
       /\ (last.path = "command" /\ last.tokens = <<>>)
            => Cardinality(ErrorsIn(last.out)) = 1

\* C8: constructed with a program name and N >= 1 further arguments, the tool,
\* once connected, has run N cycles when it is through, the k-th on the k-th
\* argument, and has read no line; constructed with the program name alone it
\* reads lines and runs no batch cycle.  (A run that the exit command ended is
\* left aside.)
C8_BatchRunsEveryArgument ==
    /\ (Len(args) >= 2 /\ pc \in {"done", "crashed"})
        => cycles = Len(args) - 1
    /\ (Len(args) >= 2 /\ last.mode # "none")
        => /\ last.mode = "batch"
           /\ last.line = args[cycles + 1]
           /\ reads = 0
    /\ Len(args) = 1 => pc \notin {"batch"} /\ last.mode # "batch"

\* C9: a cycle that ends outside continuation writes the blank separator once,
\* as the last thing it writes, whatever path it took; a cycle that ends in
\* continuation writes none.  (The cycle of the exit command, after which
\* there is no prompt, is left aside.)
C9_SeparatorAfterEveryCompletedCycle ==
    (last.mode # "none" /\ last.end # "exit")
    => /\ last.more = 0
            => /\ last.separators = 1
               /\ last.out # <<>>
               /\ last.out[Len(last.out)] = BlankLine
       /\ last.more = 1 => last.separators = 0 /\ last.out = <<>>

-----------------------------------------------------------------------------
(* Blank lines.                                                            *)

\* C10: with the buffer empty, a line of nothing but whitespace runs no
\* command and no statement, reports no error, leaves the Environment as it
\* was and the buffer empty, and asks for no more.
C10_BlankLineIsNoOp ==
    (/\ last.mode # "none"
     /\ last.bufferBefore = <<>>
     /\ AllWhitespace(last.line))
    => /\ last.path = "empty"
       /\ last.ran = <<>>
       /\ last.executed = <<>>
       /\ ErrorsIn(last.out) = {}
       /\ env = last.envBefore
       /\ buffer = <<>>
       /\ last.more = 0
       /\ last.end = "returned"

\* a line of one space was fed at the interactive prompt
C10_Witness ==
    /\ last.mode = "interactive"
    /\ last.line = <<SP>>
    /\ last.path = "empty"
    /\ buffer = <<>>

-----------------------------------------------------------------------------
(* Input that is neither a command nor a query.                            *)

\* C11: text handed to the dispatcher that, after its leading whitespace, is
\* not empty, does not start with the command prefix and does not look like
\* the start of a query is never executed as a statement: the cycle asks the
\* driver nothing, writes the invalid input error and the separator, runs no
\* command, and leaves the buffer empty and no continuation requested.
C11_InvalidInputNeverReachesTheDriver ==
    (/\ last.mode # "none"
     /\ \E k \in DOMAIN last.text :
            /\ \A i \in 1..(k - 1) : last.text[i] \in Whitespace
            /\ last.text[k] \notin Whitespace
            /\ SubSeq(last.text, k, k + Len(command_prefix) - 1) # command_prefix
            /\ ~starts_like_cypher(SubSeq(last.text, k, Len(last.text))))
    => /\ last.path = "invalid"
       /\ last.answer = NoAnswer
       /\ last.executed = <<>>
       /\ last.ran = <<>>
       /\ last.out = <<WriteError(<<"Syntax Error: Invalid input">>), BlankLine>>
       /\ last.more = 0
       /\ buffer = <<>>
       /\ env = last.envBefore

\* a word that opens no statement was typed at the prompt
C11_Witness ==
    /\ last.mode = "interactive"
    /\ last.line = <<"foo">>
    /\ last.path = "invalid"
    /\ ErrorsIn(last.out) = {1}

-----------------------------------------------------------------------------
(* Startup.                                                                *)

\* C12: when the connection attempt at startup fails the process ends with a
\* non-zero status and there has been no dispatch cycle, neither a line read
\* at the prompt nor a batch argument run; and whenever a dispatch cycle has
\* happened, or the tool stands ready for one, the startup connection had
\* succeeded: the cycle started from an environment that has a connection.
C12_NoCycleWithoutStartupConnection ==
    /\ pc = "fatal" => exit_status(pc) # 0
    /\ pc \in {"constructed", "reconstructed", "fatal"} =>
            /\ cycles = 0
            /\ reads = 0
            /\ argi = 2
            /\ last = NoCycle
            /\ env = NewEnvironment
    /\ pc \in {"read", "batch"} => env.connection # NoConnection
    /\ (cycles > 0 \/ reads > 0 \/ last.mode # "none") =>
            /\ pc \notin {"constructed", "reconstructed", "fatal"}
            /\ env.connection # NoConnection
    /\ last.mode # "none" => last.envBefore.connection # NoConnection

\* the startup connection failed and the process has ended
C12_Witness ==
    /\ pc = "fatal"
    /\ exit_status(pc) = 1
    /\ env.connection = NoConnection

-----------------------------------------------------------------------------
(* The transaction and the connection.                                     *)

\* the classes of the commands the last cycle executed
ClassesRun == {last.ran[i].class : i \in DOMAIN last.ran}

\* C13: through every sequence of connect, begin, commit and rollback commands
\* the environment holds at most one transaction, and holds one only while it
\* holds a connection, also after a connect command replaced the connection
\* or failed to replace it while the transaction was open; a commit or a
\* rollback of an active transaction clears the transaction reference, and a
\* second one finds none to clear.
C13_TransactionOnlyWithConnection ==
    /\ has_transaction(env) => env.connection # NoConnection
    /\ has_transaction(last.envBefore) => last.envBefore.connection # NoConnection
    /\ (has_transaction(last.envBefore) /\ has_transaction(env))
            => env.transaction = last.envBefore.transaction
    /\ env.transaction # last.envBefore.transaction
            => /\ Cardinality(ClassesRun) = 1
               /\ ClassesRun \subseteq {"BeginTransactionCommand",
                                        "CommitTransactionCommand",
                                        "RollbackTransactionCommand"}
    /\ "ConnectCommand" \in ClassesRun
            => /\ env.transaction = last.envBefore.transaction
               /\ env.connection # NoConnection
               /\ ErrorsIn(last.out) # {} => env = last.envBefore
               /\ ErrorsIn(last.out) = {} => env.connection = last.tokens[2]
    /\ (/\ ClassesRun \cap {"CommitTransactionCommand",
                            "RollbackTransactionCommand"} # {}
        /\ last.end = "returned")
            => /\ env.transaction = NoTransaction
               /\ has_transaction(last.envBefore) <=> ErrorsIn(last.out) = {}

\* a connect command failed while a transaction was open
C13_Witness ==
    /\ "ConnectCommand" \in ClassesRun
    /\ has_transaction(last.envBefore)
    /\ ErrorsIn(last.out) # {}
    /\ has_transaction(env)

-----------------------------------------------------------------------------
(* Parameter sets.                                                         *)

\* C14: the push command given the JSON object {"a": 1}, and again given
\* {"a": 2}, appends each mapping to the end of the parameter sequence with no
\* error reported, so that the sequence lists the pushed mappings in push
\* order; the clear command leaves the sequence empty.
C14_PushAppendsInOrder ==
    /\ (/\ last.mode = "interactive"
        /\ last.bufferBefore = <<>>
        /\ last.line \in {PushOne, PushTwo})
        => /\ ErrorsIn(last.out) = {}
           /\ Len(env.params) = Len(last.envBefore.params) + 1
           /\ SubSeq(env.params, 1, Len(last.envBefore.params))
                = last.envBefore.params
    /\ Typed("clear") => env.params = <<>>

\* C15: the push command given the payload {bad json reports a JSON syntax
\* error and leaves the parameter sequence as it was before the command.
C15_BadPayloadIsAJSONError ==
    (/\ last.mode = "interactive"
     /\ last.bufferBefore = <<>>
     /\ last.line = PushBad)
    => /\ last.out = <<WriteError(<<"malformed JSON">>), BlankLine>>
       /\ env.params = last.envBefore.params

-----------------------------------------------------------------------------
(* The registry.                                                           *)

\* C16: after the tool is constructed, once or more than once, no two patterns
\* of the registry have the same first token and the same number of elements;
\* so the tokens of a command match at most one pattern, and the command that
\* is executed is the one of that pattern wherever it stands in the registry.
C16_RegistryIsUnambiguous ==
    /\ \A i, j \in DOMAIN commands :
            (/\ commands[i].pattern[1] = commands[j].pattern[1]
             /\ Len(commands[i].pattern) = Len(commands[j].pattern))
            => i = j
    /\ Len(commands) = Len(StaticCommands) + 2
    /\ (last.path = "command" /\ last.tokens # <<>>)
            => /\ Cardinality(ShapeMatches(last.tokens)) <= 1
               /\ \A i \in ShapeMatches(last.tokens) :
                    /\ Len(last.ran) = 1
                    /\ last.ran[1].class = commands[i].class

\* the tool was constructed a second time
C16_Witness ==
    /\ pc = "reconstructed"
    /\ \E i, j \in DOMAIN commands :
            /\ commands[i].pattern = Pat1("help")
            /\ commands[j].pattern = Pat2("help", "<topic>")

-----------------------------------------------------------------------------
(* Lines read while a statement is accumulating.                           *)

\* the text ends with this suffix
EndsWith(s, suffix) ==
    /\ Len(s) >= Len(suffix)
    /\ SubSeq(s, Len(s) - Len(suffix) + 1, Len(s)) = suffix

\* C17: while lines are held in the buffer, every further line read at the
\* prompt, a blank one included, makes one attempt to execute the whole buffer
\* joined with that line as a query: the attempt either fails with a
\* truncation phrasing, which changes nothing, writes nothing and adds the
\* line to the buffer, or it ends the statement, executing the joined text if
\* the driver accepts it; so of the k attempts of a statement entered over k
\* lines only the last one takes effect.
C17_EveryLineRetriesTheJoinedBuffer ==
    (last.mode = "interactive" /\ last.bufferBefore # <<>>)
    => /\ StartsWith(last.text, last.bufferBefore[1] \o <<NL>>)
       /\ EndsWith(last.text, <<NL>> \o last.line)
       /\ Len(last.text) >= Len(last.bufferBefore) + Len(last.line)
       /\ last.path = "query"
       /\ last.answer \in Responses
       /\ last.ran = <<>>
       /\ env = last.envBefore
       /\ last.more = 1 <=> (/\ last.answer.kind = "syntax"
                             /\ IsIncomplete(last.answer.message))
       /\ last.more = 1 => /\ last.executed = <<>>
                           /\ last.out = <<>>
                           /\ buffer = Append(last.bufferBefore, last.line)
       /\ last.more = 0 => /\ buffer = <<>>
                           /\ last.answer.kind = "ok"
                                <=> last.executed = <<lstrip(last.text)>>
                           /\ last.answer.kind # "ok" => last.executed = <<>>

\* a blank line completed a statement that was held in the buffer
C17_Witness ==
    /\ last.mode = "interactive"
    /\ last.bufferBefore # <<>>
    /\ last.line \in BlankLines
    /\ last.answer.kind = "ok"
    /\ last.executed # <<>>
    /\ buffer = <<>>

-----------------------------------------------------------------------------
(* Batch arguments and continuation.                                       *)

\* C18: in batch mode every argument is dispatched on its own, against an
\* empty buffer, and the buffer stays empty; an argument whose statement fails
\* with a truncation phrasing writes no error and no separator, changes
\* nothing, and the next argument is dispatched without it.
C18_BatchCarriesNoContinuation ==
    /\ pc = "batch" => buffer = <<>>
    /\ last.mode = "batch"
        => /\ last.bufferBefore = <<>>
           /\ buffer = <<>>
           /\ last.line = args[argi - 1]
           /\ last.text = last.line
           /\ last.prompt = NoPrompt
           /\ last.more = 1
                => /\ last.path = "query"
                   /\ last.out = <<>>
                   /\ last.separators = 0
                   /\ last.executed = <<>>
                   /\ env = last.envBefore
                   /\ pc \in {"batch", "done"}

\* a batch argument was answered with a truncation phrasing and another
\* argument follows it
C18_Witness ==
    /\ last.mode = "batch"
    /\ last.more = 1
    /\ IsIncomplete(last.answer.message)
    /\ argi <= Len(args)
    /\ pc = "batch"

-----------------------------------------------------------------------------
(* What the buffer can hold.                                               *)

\* the text, after its leading whitespace, is not empty, does not start with
\* the command prefix and opens with a query keyword
OpensAQuery(text) ==
    \E k \in DOMAIN text :
        /\ \A i \in 1..(k - 1) : text[i] \in Whitespace
        /\ text[k] \notin Whitespace
        /\ SubSeq(text, k, k + Len(command_prefix) - 1) # command_prefix
        /\ LowerLexeme(text[k]) \in CypherKeywords

\* C19: whenever the console stands at the prompt with lines held in the
\* buffer, the joined buffer, after its leading whitespace, is not empty, does
\* not start with the command prefix and looks like the start of a query; and
\* a cycle that starts with lines held takes the query path, never the
\* slash-command path, the invalid-input path or the empty path.  (After an
\* exception or the exit command has ended the loop there is no prompt any
\* more; the buffer then still holds the line that was being dispatched.)
C19_BufferHoldsAQueryStart ==
    /\ (pc \in {"read", "done"} /\ buffer # <<>>)
        => /\ OpensAQuery(Join(buffer))
           /\ last.mode = "interactive"
           /\ last.more = 1
           /\ buffer = Append(last.bufferBefore, last.line)
    /\ last.bufferBefore # <<>>
        => /\ OpensAQuery(Join(last.bufferBefore))
           /\ OpensAQuery(last.text)
           /\ last.path = "query"
           /\ last.tokens = <<>>
           /\ last.end = "returned"

\* two lines are held, the first of which starts with whitespace
C19_Witness ==
    /\ pc = "read"
    /\ Len(buffer) = 2
    /\ buffer[1][1] \in Whitespace
    /\ last.bufferBefore # <<>>

-----------------------------------------------------------------------------
(* The prompt.                                                             *)

\* C20: the prompt shown before a line is read has colour 31 when a
\* transaction is active and colour 32 when none is, and no other colour,
\* whatever the buffer holds; its marker is "..." when lines are held in the
\* buffer and ">>>" when none is, whatever the transaction; the same holds for
\* the prompt the console is about to show.
C20_PromptFollowsTransactionAndBuffer ==
    /\ last.mode = "interactive"
        => /\ last.prompt.colour \in {31, 32}
           /\ last.prompt.colour = 31 <=> has_transaction(last.envBefore)
           /\ last.prompt.marker \in {"...", ">>>"}
           /\ last.prompt.marker = "..." <=> last.bufferBefore # <<>>
    /\ pc = "read"
        => /\ prompt(env, buffer).colour \in {31, 32}
           /\ prompt(env, buffer).colour = 31 <=> env.transaction # NoTransaction
           /\ prompt(env, buffer).marker \in {"...", ">>>"}
           /\ prompt(env, buffer).marker = "..." <=> Len(buffer) > 0
    /\ \A held \in {<<>>, buffer, last.bufferBefore} :
            prompt(env, held).colour = prompt(env, <<>>).colour
    /\ \A e \in {NewEnvironment, env, last.envBefore} :
            prompt(e, buffer).marker = prompt(NewEnvironment, buffer).marker

\* a line was read at the continuation prompt while a transaction was active
C20_Witness ==
    /\ last.mode = "interactive"
    /\ has_transaction(last.envBefore)
    /\ last.bufferBefore # <<>>
    /\ last.prompt.colour = 31
    /\ last.prompt.marker = "..."

====
